---- MODULE Spec2Model ----
(***************************************************************************)
(* Model of bodil/array-ops: the ArrayMut primitives swap and map_pair,    *)
(* the quicksort engine of src/sort.rs (do_quicksort, with its recursion   *)
(* made explicit as a stack of frames, one action per statement), and      *)
(* Array::binary_search_by.                                                *)
(*                                                                         *)
(* usize values are represented by their two's complement reading (the     *)
(* value `x as isize`), so usize::MAX is -1 and wrapping +1 / -1 are the   *)
(* integer +1 / -1; unsigned comparison is ULe.                            *)
(***************************************************************************)
EXTENDS Integers, Sequences, FiniteSets, Bags, TLC

\* ----------------------------------------------------------------- bounds
\* arrays sorted with a consistent comparator have at most MaxLen elements
\* (MaxLenLong where the long run of the collapse loops is looked for), the
\* ones sorted with an arbitrary closure at most MaxLenAny; the elements are
\* 1 .. MaxVal
MaxLen == 4
MaxLenLong == 5
MaxLenAny == 3
MaxVal == 2

Elems == 1..MaxVal

VARIABLES
    arr,      \* the array being sorted: a function 0..len-1 -> Elems
    arr0,     \* history: the array when sort_unstable_by was called
    cmpKind,  \* which comparator the caller passed
    stack,    \* call stack of do_quicksort frames, top first
    status,   \* "idle", "running", "done", "panic"
    why,      \* the fatal condition when status = "panic"
    acc,      \* history: the last swap / map_pair call, its indices and the
              \* working range [lo, hi] of the call that made it
    nswaps,   \* history: number of swaps that exchanged two distinct positions
    bs        \* state of binary_search_by

vars == <<arr, arr0, cmpKind, stack, status, why, acc, nswaps, bs>>

\* ------------------------------------------------------------ the array
len(a) == Cardinality(DOMAIN a)

InBounds(a, i) == i \in DOMAIN a

Arrays(maxLen) == UNION {[0..(n - 1) -> Elems] : n \in 0..maxLen}

\* ArrayMut::swap: nothing when the indices are equal, else both are indexed
SwapOob(a, i, j) == i # j /\ (~InBounds(a, i) \/ ~InBounds(a, j))

\* faulty variant: the second store of the exchange is lost
swapOverwrite(a, i, j) ==
    IF i = j THEN a ELSE [a EXCEPT ![i] = a[j]]

swap(a, i, j) ==
    IF i = j THEN a ELSE [a EXCEPT ![i] = a[j], ![j] = a[i]]

\* ArrayMut::map_pair: panics on equal indices, then indexes both
MapPairEqual(i, j) == i = j

MapPairOob(a, i, j) == i # j /\ (~InBounds(a, i) \/ ~InBounds(a, j))

\* ------------------------------------------------------- the comparators
\* Ord::cmp on the elements
OrdCmp(a, b) == IF a < b THEN "Less" ELSE IF a = b THEN "Equal" ELSE "Greater"

\* the key extractor of sort_unstable_by_key: distinct elements share a key
extract(e) == e \div 3

\* cmpKind "ord": sort_unstable; "key": sort_unstable_by_key(extract);
\* "any": sort_unstable_by with a closure that may answer anything, or panic
ConsistentKinds == {"ord", "key"}

CmpKinds == ConsistentKinds \cup {"any"}

compare(kind, a, b) ==
    CASE kind = "ord" -> OrdCmp(a, b)
      [] kind = "key" -> OrdCmp(extract(a), extract(b))

CmpOutcomes(kind, a, b) ==
    IF kind = "any" THEN {"Less", "Equal", "Greater", "Panic"}
    ELSE {compare(kind, a, b)}

\* unsigned <= on two's complement readings
ULe(a, b) ==
    IF a >= 0 /\ b >= 0 THEN a <= b
    ELSE IF a < 0 /\ b < 0 THEN a <= b
    ELSE b < 0

\* --------------------------------------------------------------- frames
\* a0 is history: the array as the call found it
Frame(left, right) ==
    [left |-> left, right |-> right, pc |-> "entry",
     p |-> 0, l1 |-> 0, r1 |-> 0, l2 |-> 0, r2 |-> 0, k |-> 0, pv |-> 0,
     a0 |-> arr]

top == Head(stack)

SetTop(f) == <<f>> \o Tail(stack)

NoAcc == [op |-> "none", i |-> 0, j |-> 0, by |-> "none", lo |-> 0, hi |-> 0]

Running(pc) == status = "running" /\ stack # <<>> /\ top.pc = pc

Panic(reason) == status' = "panic" /\ why' = reason

\* a swap call by the engine, continuing in frame f
SwapStep(i, j, f) ==
    /\ acc' = [op |-> "swap", i |-> i, j |-> j, by |-> "engine",
               lo |-> top.left, hi |-> top.right]
    /\ IF SwapOob(arr, i, j)
       THEN /\ Panic("oob")
            /\ UNCHANGED <<arr, stack, nswaps>>
       ELSE /\ arr' = swap(arr, i, j)
            /\ nswaps' = nswaps + (IF i = j THEN 0 ELSE 1)
            /\ stack' = SetTop(f)
            /\ UNCHANGED <<status, why>>
    /\ UNCHANGED <<arr0, cmpKind, bs>>

\* a map_pair(i, j, cmp) call by the engine; the frame the engine goes on
\* with is fLess, fEqual or fGreater, by the comparator's answer
MapPairStep(i, j, fLess, fEqual, fGreater) ==
    /\ acc' = [op |-> "map_pair", i |-> i, j |-> j, by |-> "engine",
               lo |-> top.left, hi |-> top.right]
    /\ IF MapPairEqual(i, j)
       THEN Panic("map_pair_equal") /\ UNCHANGED stack
       ELSE IF MapPairOob(arr, i, j)
       THEN Panic("oob") /\ UNCHANGED stack
       ELSE \E res \in CmpOutcomes(cmpKind, arr[i], arr[j]) :
              IF res = "Panic"
              THEN Panic("cmp") /\ UNCHANGED stack
              ELSE /\ stack' = SetTop(CASE res = "Less" -> fLess
                                         [] res = "Equal" -> fEqual
                                         [] res = "Greater" -> fGreater)
                   /\ UNCHANGED <<status, why>>
    /\ UNCHANGED <<arr, arr0, cmpKind, nswaps, bs>>

\* a step that touches no element
Goto(f) ==
    /\ stack' = SetTop(f)
    /\ UNCHANGED <<arr, arr0, cmpKind, status, why, acc, nswaps, bs>>

\* return from the current do_quicksort call
Return ==
    /\ stack' = Tail(stack)
    /\ status' = IF Tail(stack) = <<>> THEN "done" ELSE status
    /\ UNCHANGED <<arr, arr0, cmpKind, why, acc, nswaps, bs>>

NoBs == [pc |-> "off", target |-> 0, size |-> 0, base |-> 0, result |-> <<"none", 0>>]

InitWith(kinds, arrays) ==
    /\ arr \in arrays
    /\ arr0 = arr
    /\ cmpKind \in kinds
    /\ stack = <<>>
    /\ status = "idle"
    /\ why = "none"
    /\ acc = NoAcc
    /\ nswaps = 0
    /\ bs = NoBs

\* the caller sorts with sort_unstable or sort_unstable_by_key
Init == InitWith(ConsistentKinds, Arrays(MaxLen))

InitLong == InitWith(ConsistentKinds, Arrays(MaxLenLong))

\* the caller sorts with any closure at all.  What such a sort does never
\* depends on the elements' values (every answer is possible on every
\* pair), so one array of each length stands for all of them.
CyclicArrays(maxLen) ==
    {[i \in 0..(n - 1) |-> (i % MaxVal) + 1] : n \in 0..maxLen}

InitAny == InitWith({"any"}, CyclicArrays(MaxLenAny))

\* a caller uses the public ArrayMut::map_pair directly, with any two indices
MapPairCall ==
    /\ status = "idle"
    /\ \E i, j \in 0..len(arr) :
         /\ acc' = [op |-> "map_pair", i |-> i, j |-> j, by |-> "caller",
                    lo |-> 0, hi |-> len(arr) - 1]
         /\ IF MapPairEqual(i, j)
            THEN Panic("map_pair_equal")
            ELSE IF MapPairOob(arr, i, j)
            THEN Panic("oob")
            ELSE status' = "applied" /\ UNCHANGED why
    /\ UNCHANGED <<arr, arr0, cmpKind, stack, nswaps, bs>>

\* ArrayMut::sort_unstable_by and sort::quicksort: do_quicksort(0, len - 1).
\* len - 1 on an empty array overflows: a panic with overflow checks (debug
\* build), usize::MAX without (release build).
SortUnstableBy ==
    /\ status = "idle"
    /\ IF len(arr) = 0
       THEN \E build \in {"debug", "release"} :
              IF build = "debug"
              THEN Panic("overflow") /\ UNCHANGED stack
              ELSE /\ stack' = <<Frame(0, -1)>>
                   /\ status' = "running"
                   /\ UNCHANGED why
       ELSE /\ stack' = <<Frame(0, len(arr) - 1)>>
            /\ status' = "running"
            /\ UNCHANGED why
    /\ UNCHANGED <<arr, arr0, cmpKind, acc, nswaps, bs>>

\* ------------------------------------------------------- do_quicksort
\* gen_range(rng, min, max): min + next_u64 % (max - min); any value of the
\* generator is allowed, so any index of min .. max-1; a zero range panics
GenRange(min, max) == {min + x : x \in 0..((max - min) - 1)}

\* sort.rs 25-37: base case, cursors, pivot choice, pivot moved to `right`
Entry ==
    /\ Running("entry")
    /\ LET f == top
           l == f.left
           r == f.right
       IN IF ULe(f.right, f.left)
          THEN Return
          ELSE IF (f.right + 1) - f.left = 0
          THEN /\ Panic("rem_by_zero")
               /\ UNCHANGED <<arr, arr0, cmpKind, stack, acc, nswaps, bs>>
          ELSE \E p \in GenRange(f.left, f.right + 1) :
                 SwapStep(r, p, [f EXCEPT !.p = p, !.l1 = l, !.r1 = r,
                                          !.l2 = l - 1, !.r2 = r,
                                          !.pv = arr[p], !.pc = "scanL"])

\* faulty variant: the comparison is made without looking where the cursor is
NotAtPivotUnchecked(i, r) == TRUE

\* sort.rs 39, 45, 56, 60: the cursor is not on the pivot position `right`
NotAtPivot(i, r) == i # r

\* faulty variant: the right cursor is not moved before it is looked at
DecrementForgotten(r1) == r1

\* sort.rs 44: r1 -= 1
Decrement(r1) == r1 - 1

\* sort.rs 52: the scan cursors have crossed
Crossed(l1, r1) == l1 >= r1

\* sort.rs 39-42: advance l1 while element[l1] < pivot
ScanL ==
    /\ Running("scanL")
    /\ LET f == top
           stop == [f EXCEPT !.pc = "decR"]
       IN IF NotAtPivot(f.l1, f.right)
          THEN MapPairStep(f.l1, f.right,
                           [f EXCEPT !.l1 = f.l1 + 1], stop, stop)
          ELSE Goto([f EXCEPT !.pc = "decR"])

\* sort.rs 44
DecR ==
    /\ Running("decR")
    /\ Goto([top EXCEPT !.r1 = Decrement(top.r1), !.pc = "scanR"])

\* sort.rs 45-51: retreat r1 while pivot < element[r1], not below left
ScanR ==
    /\ Running("scanR")
    /\ LET f == top
           stop == [f EXCEPT !.pc = "cross"]
           less == IF f.r1 = f.left THEN stop
                   ELSE [f EXCEPT !.r1 = f.r1 - 1]
       IN IF NotAtPivot(f.r1, f.right)
          THEN MapPairStep(f.right, f.r1, less, stop, stop)
          ELSE Goto([f EXCEPT !.pc = "cross"])

\* sort.rs 52-55: stop when the cursors crossed, else exchange
Cross ==
    /\ Running("cross")
    /\ LET f == top
       IN IF Crossed(f.l1, f.r1)
          THEN Goto([f EXCEPT !.pc = "place"])
          ELSE SwapStep(f.l1, f.r1, [f EXCEPT !.pc = "eqL"])

\* sort.rs 56-57: is the element now at l1 equal to the pivot
EqL ==
    /\ Running("eqL")
    /\ LET f == top
           skip == [f EXCEPT !.pc = "eqR"]
       IN IF NotAtPivot(f.l1, f.right)
          THEN MapPairStep(f.l1, f.right, skip,
                           [f EXCEPT !.l2 = f.l2 + 1, !.pc = "eqLswap"], skip)
          ELSE Goto([f EXCEPT !.pc = "eqR"])

\* sort.rs 58
EqLSwap ==
    /\ Running("eqLswap")
    /\ SwapStep(top.l2, top.l1, [top EXCEPT !.pc = "eqR"])

\* sort.rs 60-61: is the element now at r1 equal to the pivot
EqR ==
    /\ Running("eqR")
    /\ LET f == top
           skip == [f EXCEPT !.pc = "scanL"]
       IN IF NotAtPivot(f.r1, f.right)
          THEN MapPairStep(f.right, f.r1, skip,
                           [f EXCEPT !.r2 = f.r2 - 1, !.pc = "eqRswap"], skip)
          ELSE Goto([f EXCEPT !.pc = "scanL"])

\* sort.rs 62
EqRSwap ==
    /\ Running("eqRswap")
    /\ SwapStep(top.r1, top.r2, [top EXCEPT !.pc = "scanL"])

\* faulty variant: the cursor stays on the pivot
AfterPivotStay(l1) == l1

\* sort.rs 68: the first position right of the placed pivot
AfterPivot(l1) == l1 + 1

\* sort.rs 65-69: the pivot goes to l1; cursors for the collapse
Place ==
    /\ Running("place")
    /\ LET f == top
       IN SwapStep(f.l1, f.right, [f EXCEPT !.r1 = f.l1 - 1,
                                           !.l1 = AfterPivot(f.l1),
                                           !.k = f.left, !.pc = "colL"])

\* sort.rs 70-75: the left equal run is moved next to the pivot
ColL ==
    /\ Running("colL")
    /\ LET f == top
       IN IF f.k < f.l2
          THEN SwapStep(f.k, f.r1, [f EXCEPT !.r1 = f.r1 - 1, !.k = f.k + 1])
          ELSE Goto([f EXCEPT !.k = f.right - 1, !.pc = "colR"])

\* sort.rs 76-80: the right equal run is moved next to the pivot
ColR ==
    /\ Running("colR")
    /\ LET f == top
       IN IF f.k > f.r2
          THEN SwapStep(f.l1, f.k, [f EXCEPT !.k = f.k - 1, !.l1 = f.l1 + 1])
          ELSE Goto([f EXCEPT !.pc = "recL"])

\* a nested call: the caller resumes at pc `back`
Call(left, right, back) ==
    /\ stack' = <<Frame(left, right)>> \o SetTop([top EXCEPT !.pc = back])
    /\ UNCHANGED <<arr, arr0, cmpKind, status, why, acc, nswaps, bs>>

\* sort.rs 82-84
RecL ==
    /\ Running("recL")
    /\ IF top.r1 >= 0
       THEN Call(top.left, top.r1, "recR")
       ELSE Goto([top EXCEPT !.pc = "recR"])

\* sort.rs 85
RecR ==
    /\ Running("recR")
    /\ Call(top.l1, top.right, "ret")

\* sort.rs 86
Ret ==
    /\ Running("ret")
    /\ Return

Next ==
    \/ MapPairCall
    \/ SortUnstableBy
    \/ Entry
    \/ ScanL
    \/ DecR
    \/ ScanR
    \/ Cross
    \/ EqL
    \/ EqLSwap
    \/ EqR
    \/ EqRSwap
    \/ Place
    \/ ColL
    \/ ColR
    \/ RecL
    \/ RecR
    \/ Ret

\* every caller: the consistent comparators and the arbitrary closure
Spec == (Init \/ InitAny) /\ [][Next]_vars

\* the consistent comparators on longer arrays
SpecLong == InitLong /\ [][Next]_vars

\* every sort call is eventually scheduled to its end: the call is one
\* sequential computation, so a step that can be taken is taken
FairSpec == Spec /\ WF_vars(Next)

\* ------------------------------------------------ Array::binary_search
\* Array::is_sorted on the elements' own order
IsSorted(a) == \A i \in DOMAIN a : i >= 1 => OrdCmp(a[i - 1], a[i]) # "Greater"

\* the arrays searched hold even numbers, so that a target can lie below,
\* between, on or above the elements
BsElems == {2 * v : v \in Elems}

BsArrays == UNION {[0..(n - 1) -> BsElems] : n \in 0..MaxLen}

Targets == 1..(2 * MaxVal + 1)

\* array.rs 67: the probe closure of binary_search, |value| value.cmp(target)
Probe(value, target) == OrdCmp(value, target)

\* array.rs 85
BsNextBase(cmp, base, mid) == IF cmp = "Greater" THEN base ELSE mid

\* faulty variant: the insertion position is not moved past a smaller element
BsResultNoStep(cmp, base) ==
    IF cmp = "Equal" THEN <<"Ok", base>> ELSE <<"Err", base>>

\* array.rs 89-93
BsResult(cmp, base) ==
    IF cmp = "Equal" THEN <<"Ok", base>>
    ELSE <<"Err", base + (IF cmp = "Less" THEN 1 ELSE 0)>>

InitBS ==
    /\ arr \in {a \in BsArrays : IsSorted(a)}
    /\ arr0 = arr
    /\ cmpKind = "ord"
    /\ stack = <<>>
    /\ status = "idle"
    /\ why = "none"
    /\ acc = NoAcc
    /\ nswaps = 0
    /\ \E t \in Targets : bs = [NoBs EXCEPT !.pc = "start", !.target = t]

BsStep(b) ==
    /\ bs' = b
    /\ UNCHANGED <<arr, arr0, cmpKind, stack, status, why, acc, nswaps>>

\* array.rs 75-80
BsStart ==
    /\ bs.pc = "start"
    /\ IF len(arr) = 0
       THEN BsStep([bs EXCEPT !.pc = "done", !.result = <<"Err", 0>>])
       ELSE BsStep([bs EXCEPT !.pc = "loop", !.size = len(arr), !.base = 0])

\* array.rs 81-87
BsLoop ==
    /\ bs.pc = "loop"
    /\ IF bs.size > 1
       THEN LET half == bs.size \div 2
                mid == bs.base + half
                cmp == Probe(arr[mid], bs.target)
            IN BsStep([bs EXCEPT !.base = BsNextBase(cmp, bs.base, mid),
                                 !.size = bs.size - half])
       ELSE BsStep([bs EXCEPT !.pc = "final"])

\* array.rs 88-93
BsFinal ==
    /\ bs.pc = "final"
    /\ BsStep([bs EXCEPT !.pc = "done",
                         !.result = BsResult(Probe(arr[bs.base], bs.target), bs.base)])

NextBS ==
    \/ BsStart
    \/ BsLoop
    \/ BsFinal

SpecBS == InitBS /\ [][NextBS]_vars

\* ------------------------------------------------------------ properties
Finished == status \in {"done", "panic"}

\* the state belongs to a sort call, not to a direct map_pair call
SortCall == acc.by # "caller"

IsSortedBy(a, kind) ==
    \A i, j \in DOMAIN a :
        i < j => compare(kind, a[i], a[j]) \in {"Less", "Equal"}

BagOf(a) ==
    [e \in {a[i] : i \in DOMAIN a} |-> Cardinality({i \in DOMAIN a : a[i] = e})]

bottom == stack[Len(stack)]

\* C1: when sort_unstable_by returns on a non-empty array under a consistent
\* comparator, every pair of positions i < j compares Less or Equal.
C1_Sortedness ==
    (status = "done" /\ len(arr0) > 0 /\ cmpKind \in ConsistentKinds)
        => IsSortedBy(arr, cmpKind)

\* C2: in every state of a sort, finished, running or abandoned on a panic,
\* under any comparator, the array holds the multiset of elements it was
\* called with, at the same length.
C2_Permutation ==
    /\ BagOf(arr) = BagOf(arr0)
    /\ DOMAIN arr = DOMAIN arr0

\* a sort abandoned by a panicking comparator after elements were exchanged
C2_Witness ==
    /\ status = "panic"
    /\ why = "cmp"
    /\ nswaps > 1
    /\ arr # arr0

\* C3: on a non-empty array under a consistent comparator every index the
\* engine passes to swap or map_pair is a valid position, and no
\* out-of-bounds failure ends the sort.
C3_IndicesValid ==
    (len(arr0) > 0 /\ cmpKind \in ConsistentKinds /\ acc.by = "engine")
        => /\ InBounds(arr, acc.i)
           /\ InBounds(arr, acc.j)
           /\ why # "oob"

\* C4: a sort of an array of length 0 or 1 does not fail, performs no swap
\* and leaves the array as it was.
C4_Boundary01 ==
    (len(arr0) <= 1 /\ SortCall)
        => /\ status # "panic"
           /\ nswaps = 0
           /\ arr = arr0

\* every nested call works on a range inside its caller's and strictly shorter
SubRangesShrink ==
    \A n \in 1..(Len(stack) - 1) :
        /\ stack[n].left >= stack[n + 1].left
        /\ stack[n].right <= stack[n + 1].right
        /\ stack[n].right - stack[n].left < stack[n + 1].right - stack[n + 1].left

\* no more active do_quicksort calls than elements; the initial call itself
\* is no recursion (it is the only call on an empty array)
DepthBounded == Len(stack) <= len(arr0) \/ Len(stack) <= 1

\* C5: under any comparator and any pivot choice a sort call ends (it
\* returns or stops on a fatal condition); every recursive call gets a range
\* inside the caller's and strictly shorter, and the recursion depth never
\* exceeds the length of the array.
C5_Termination ==
    /\ [](SubRangesShrink /\ DepthBounded)
    /\ (status = "running" ~> Finished)

\* a call nested as deep as the array is long, entered on a one-element range
C5_Witness ==
    /\ status = "running"
    /\ len(arr0) >= 3
    /\ Len(stack) = len(arr0)
    /\ top.pc = "entry"
    /\ top.right = top.left

\* C6: map_pair with two equal indices is rejected with a panic, whoever
\* calls it; and in a sort, under any comparator and any pivot choice, the
\* engine never calls map_pair with two equal indices.
C6_DualAccess ==
    /\ (acc.op = "map_pair" /\ acc.i = acc.j)
           => (status = "panic" /\ why = "map_pair_equal")
    /\ (acc.op = "map_pair" /\ acc.by = "engine") => acc.i # acc.j

\* the left cursor has run onto the pivot position after a comparison, and
\* the next comparison is skipped
C6_Witness ==
    /\ status = "running"
    /\ top.pc = "scanL"
    /\ top.l1 = top.right
    /\ acc.op = "map_pair"
    /\ acc.by = "engine"
    /\ acc.j = top.right

\* C7: sorting a non-empty array that is already sorted under the
\* comparator returns, with the array identical to its input, position by
\* position.  Stated for the elements' own order (sort_unstable).
C7_Idempotence ==
    (SortCall /\ Finished /\ cmpKind = "ord" /\ len(arr0) > 0
        /\ IsSortedBy(arr0, cmpKind))
        => (status = "done" /\ arr = arr0)

CountLess(a, t) == Cardinality({i \in DOMAIN a : a[i] < t})

\* C9: on an ascending array binary_search returns Ok(i) with element i equal
\* to the target when the target occurs, and otherwise Err(i) with i the
\* number of elements less than the target.
C9_BinarySearch ==
    bs.pc = "done" =>
        IF \E i \in DOMAIN arr : arr[i] = bs.target
        THEN /\ bs.result[1] = "Ok"
             /\ InBounds(arr, bs.result[2])
             /\ arr[bs.result[2]] = bs.target
        ELSE bs.result = <<"Err", CountLess(arr, bs.target)>>

\* an absent target whose insertion position is inside the array
C9_Witness ==
    /\ bs.pc = "done"
    /\ bs.result[1] = "Err"
    /\ bs.result[2] > 0
    /\ bs.result[2] < len(arr)

\* C10: after a partition step, with r1 and l1 the bounds handed to the
\* recursive calls, [left, r1] holds only elements Less than the pivot,
\* [r1+1, l1-1] only elements Equal to it, [l1, right] only Greater ones.
C10_ThreeWay ==
    (status = "running" /\ top.pc = "recL" /\ cmpKind \in ConsistentKinds) =>
        \A i \in DOMAIN arr :
            /\ (top.left <= i /\ i <= top.r1)
                   => compare(cmpKind, arr[i], top.pv) = "Less"
            /\ (top.r1 < i /\ i < top.l1)
                   => compare(cmpKind, arr[i], top.pv) = "Equal"
            /\ (top.l1 <= i /\ i <= top.right)
                   => compare(cmpKind, arr[i], top.pv) = "Greater"

\* position i lies in the working range [lo, hi]
InRange(i, lo, hi) == lo <= i /\ i <= hi

\* C11: a do_quicksort call on [left, right] passes only indices of that
\* range to swap and map_pair, and while it runs every element outside the
\* range is the one the call found there.
C11_Frame ==
    /\ acc.by = "engine"
           => (InRange(acc.i, acc.lo, acc.hi) /\ InRange(acc.j, acc.lo, acc.hi))
    /\ \A n \in 1..Len(stack) :
           \A i \in DOMAIN arr :
               ~InRange(i, stack[n].left, stack[n].right)
                   => arr[i] = stack[n].a0[i]

====
